---------------------------- MODULE Spec2Model ----------------------------
(***************************************************************************)
(* Model of the order ledger service (app/services/sheets_service.py):     *)
(* the orders and dispatch worksheets, the handlers that append to them    *)
(* and the aggregation views computed from them.                           *)
(*                                                                         *)
(* A Python str is a sequence of one-character strings, so that strip(),   *)
(* lower(), split(), the "in" substring test, int() and float() are        *)
(* computed character by character as the interpreter does.                *)
(***************************************************************************)
EXTENDS Integers, Sequences, FiniteSets, TLC

-----------------------------------------------------------------------------
(* Bounds of the model *)

\* longest cell text enumerated for _parse_int
MaxLen == 3
\* most data rows of the worksheet _generate_next_order_number reads
MaxGenRows == 4
\* most data rows of the orders worksheet
MaxOrders == 2
\* most data rows of the dispatch worksheet
MaxDispatch == 2
\* most data rows of the orders worksheet get_pivot_data reads
MaxPivotOrders == 2

-----------------------------------------------------------------------------
(* Python str operations *)

Whitespace == {" "}

UpperChars ==
  <<"A","B","C","D","E","F","G","H","I","J","K","L","M",
    "N","O","P","Q","R","S","T","U","V","W","X","Y","Z">>

LowerChars ==
  <<"a","b","c","d","e","f","g","h","i","j","k","l","m",
    "n","o","p","q","r","s","t","u","v","w","x","y","z">>

DigitChars == <<"0","1","2","3","4","5","6","7","8","9">>

\* the characters of the model in code point order (the order sorted() uses)
CodePoints ==
  <<" ", "+", ",", "-", ".">> \o DigitChars \o UpperChars \o LowerChars

Chars == {CodePoints[i] : i \in 1..Len(CodePoints)}

OrdTable == [c \in Chars |-> CHOOSE i \in 1..Len(CodePoints) : CodePoints[i] = c]

\* ord(c)
Ord(c) == OrdTable[c]

DigitSet == {DigitChars[i] : i \in 1..10}

IsDigit(c) == c \in DigitSet

DigitTable == [c \in DigitSet |-> (CHOOSE i \in 1..10 : DigitChars[i] = c) - 1]

DigitVal(c) == DigitTable[c]

LowerTable ==
  [c \in Chars |->
     IF \E i \in 1..26 : UpperChars[i] = c
       THEN LowerChars[CHOOSE i \in 1..26 : UpperChars[i] = c]
       ELSE c]

\* str.lower()
Lower(s) == [i \in 1..Len(s) |-> LowerTable[s[i]]]

RECURSIVE LStrip(_)
LStrip(s) == IF s # <<>> /\ Head(s) \in Whitespace THEN LStrip(Tail(s)) ELSE s

RECURSIVE RStrip(_)
RStrip(s) ==
  IF s # <<>> /\ s[Len(s)] \in Whitespace THEN RStrip(SubSeq(s, 1, Len(s) - 1)) ELSE s

\* str.strip()
Strip(s) == RStrip(LStrip(s))

\* t in s
Contains(s, t) ==
  \E i \in 1..(Len(s) - Len(t) + 1) :
     \A j \in 1..Len(t) : s[i + j - 1] = t[j]

\* s.replace(c, '') for a one-character c
RECURSIVE RemoveChar(_, _)
RemoveChar(s, c) ==
  IF s = <<>> THEN <<>>
  ELSE IF Head(s) = c THEN RemoveChar(Tail(s), c)
  ELSE <<Head(s)>> \o RemoveChar(Tail(s), c)

\* s.split(c) for a one-character c
RECURSIVE Split(_, _)
Split(s, c) ==
  IF \A i \in 1..Len(s) : s[i] # c THEN <<s>>
  ELSE LET k == CHOOSE i \in 1..Len(s) : s[i] = c /\ \A j \in 1..(i-1) : s[j] # c
       IN  <<SubSeq(s, 1, k - 1)>> \o Split(SubSeq(s, k + 1, Len(s)), c)

\* s < t in Python's string order
RECURSIVE StrLess(_, _)
StrLess(s, t) ==
  IF t = <<>> THEN FALSE
  ELSE IF s = <<>> THEN TRUE
  ELSE IF Head(s) # Head(t) THEN Ord(Head(s)) < Ord(Head(t))
  ELSE StrLess(Tail(s), Tail(t))

RECURSIVE Pow10(_)
Pow10(k) == IF k <= 0 THEN 1 ELSE 10 * Pow10(k - 1)

\* the value of a sequence of decimal digits
RECURSIVE DigitsVal(_)
DigitsVal(s) ==
  IF s = <<>> THEN 0 ELSE 10 * DigitsVal(SubSeq(s, 1, Len(s) - 1)) + DigitVal(s[Len(s)])

AllDigits(s) == \A i \in 1..Len(s) : IsDigit(s[i])

\* str(n) for an int n
RECURSIVE NatToStr(_)
NatToStr(n) ==
  IF n < 10 THEN <<DigitChars[n + 1]>>
  ELSE NatToStr(n \div 10) \o <<DigitChars[(n % 10) + 1]>>

IntToStr(n) == IF n < 0 THEN <<"-">> \o NatToStr(-n) ELSE NatToStr(n)

\* the index of the first c in s, 0 when there is none
FirstIndex(s, c) ==
  IF \E i \in 1..Len(s) : s[i] = c
    THEN CHOOSE i \in 1..Len(s) : s[i] = c /\ \A j \in 1..(i - 1) : s[j] # c
    ELSE 0

int_digits(body, neg) ==
  IF body # <<>> /\ AllDigits(body)
    THEN [ok |-> TRUE, val |-> IF neg THEN -DigitsVal(body) ELSE DigitsVal(body)]
    ELSE [ok |-> FALSE, val |-> 0]

\* an optional sign and one or more digits
int_signed(t) ==
  IF t # <<>> /\ t[1] \in {"+", "-"} THEN int_digits(Tail(t), t[1] = "-")
  ELSE int_digits(t, FALSE)

\* int(s) for a str s: [ok |-> FALSE] stands for ValueError
PyInt(s) == int_signed(Strip(s))

\* a float: kind "err" stands for ValueError; a number is
\* (-1)^neg * mant * 10^scale, with ndig significant digits in mant
float_value(kind, neg, mant, scale) ==
  [kind |-> kind, neg |-> neg, mant |-> mant, scale |-> scale,
   ndig |-> IF mant = 0 THEN 0 ELSE Len(NatToStr(mant))]

float_parts(ipart, fpart, neg, x) ==
  IF x.ok /\ AllDigits(ipart) /\ AllDigits(fpart) /\ Len(ipart) + Len(fpart) >= 1
    THEN float_value("num", neg, DigitsVal(ipart \o fpart), x.val - Len(fpart))
    ELSE float_value("err", neg, 0, 0)

\* digits, with at most one "." among them, at d1 (0: none)
float_mantissa(mpart, d1, neg, x) ==
  IF d1 = 0 THEN float_parts(mpart, <<>>, neg, x)
  ELSE float_parts(SubSeq(mpart, 1, d1 - 1), SubSeq(mpart, d1 + 1, Len(mpart)), neg, x)

float_exponent(mpart, neg, x) == float_mantissa(mpart, FirstIndex(mpart, "."), neg, x)

\* the text after the sign, lower-cased, with its first "e" at e1 (0: none)
float_body(body, neg, e1) ==
  IF body \in {<<"i","n","f">>, <<"i","n","f","i","n","i","t","y">>}
    THEN float_value("inf", neg, 0, 0)
  ELSE IF body = <<"n","a","n">> THEN float_value("nan", neg, 0, 0)
  ELSE IF e1 = 0 THEN float_exponent(body, neg, [ok |-> TRUE, val |-> 0])
  ELSE float_exponent(SubSeq(body, 1, e1 - 1), neg,
                      int_signed(SubSeq(body, e1 + 1, Len(body))))

float_signed(t) ==
  IF t # <<>> /\ t[1] \in {"+", "-"}
    THEN float_body(Tail(t), t[1] = "-", FirstIndex(Tail(t), "e"))
    ELSE float_body(t, FALSE, FirstIndex(t, "e"))

\* float(s) for a str s
PyFloat(s) == float_signed(Lower(Strip(s)))

\* a double overflows to infinity above sys.float_info.max = 1.797...e308:
\* 309 integer digits whose leading four exceed 1797, or more digits
FloatMaxDigits == 309
FloatMaxLead == 1797

\* the four leading digits of mant
LeadingFour(mant, ndig) ==
  IF ndig <= 4 THEN mant * Pow10(4 - ndig) ELSE mant \div Pow10(ndig - 4)

\* float(s) is +-inf
FloatIsInf(f) ==
  \/ f.kind = "inf"
  \/ /\ f.kind = "num" /\ f.mant # 0
     /\ \/ f.ndig + f.scale > FloatMaxDigits
        \/ /\ f.ndig + f.scale = FloatMaxDigits
           /\ LeadingFour(f.mant, f.ndig) > FloatMaxLead

\* int(f) of a finite f of at most 9 digits: the fraction is cut off
Truncate(f) ==
  IF f.mant = 0 \/ -f.scale >= f.ndig THEN 0
  ELSE IF f.scale >= 0 THEN (IF f.neg THEN -1 ELSE 1) * f.mant * Pow10(f.scale)
  ELSE (IF f.neg THEN -1 ELSE 1) * (f.mant \div Pow10(-f.scale))

\* int(f). raised: OverflowError (int() of an infinity), which _parse_int does
\* not catch; ValueError (f is no number, or is nan) is caught and gives 0.
\* wide: the int has more than 9 digits, val then is unused
int_of_float(f) ==
  IF f.kind \in {"err", "nan"} THEN [raised |-> FALSE, wide |-> FALSE, val |-> 0]
  ELSE IF FloatIsInf(f) THEN [raised |-> TRUE, wide |-> FALSE, val |-> 0]
  ELSE IF f.mant # 0 /\ f.ndig + f.scale > 9
    THEN [raised |-> FALSE, wide |-> TRUE, val |-> 0]
  ELSE [raised |-> FALSE, wide |-> FALSE, val |-> Truncate(f)]

\* int(float(t or 0))
int_float_or_0(t) ==
  IF t = <<>> THEN [raised |-> FALSE, wide |-> FALSE, val |-> 0]
  ELSE int_of_float(PyFloat(t))

\* _parse_int(value): int(float(str(value).replace(',', '') or 0)), with
\* ValueError and TypeError caught and answered by 0
_parse_int(value) == int_float_or_0(RemoveChar(value, ","))

-----------------------------------------------------------------------------
(* The string literals of the service *)

\* 'Order Number'
sOrderNumber == <<"O","r","d","e","r"," ","N","u","m","b","e","r">>

\* 'Date'
sDate == <<"D","a","t","e">>

\* 'Company'
sCompany == <<"C","o","m","p","a","n","y">>

\* 'Product'
sProduct == <<"P","r","o","d","u","c","t">>

\* 'Brand'
sBrand == <<"B","r","a","n","d">>

\* 'Quantity'
sQuantity == <<"Q","u","a","n","t","i","t","y">>

\* 'Price'
sPrice == <<"P","r","i","c","e">>

\* 'Party Name'
sPartyName == <<"P","a","r","t","y"," ","N","a","m","e">>

\* 'blade type'
sBladeType == <<"b","l","a","d","e"," ","t","y","p","e">>

\* 'quantity'
sQuantityLc == <<"q","u","a","n","t","i","t","y">>

\* 'balance'
sBalance == <<"b","a","l","a","n","c","e">>

\* 'balance order'
sBalanceOrder == <<"b","a","l","a","n","c","e"," ","o","r","d","e","r">>

\* 'blade'
sBlade == <<"b","l","a","d","e">>

\* 'product'
sProductLc == <<"p","r","o","d","u","c","t">>

\* 'party'
sParty == <<"p","a","r","t","y">>

\* 'company'
sCompanyLc == <<"c","o","m","p","a","n","y">>

\* '0'
sZero == <<"0">>

\* '1'
sOne == <<"1">>

-----------------------------------------------------------------------------
(* Worksheet values and the dicts get_recent_orders makes of them.          *)
(* get_all_values() is a list of rows, the header row first; a cell is a    *)
(* str. A dict is the sequence of its items in insertion order.             *)

\* the limit every aggregation passes to get_recent_orders
RecentLimit == 1000

Min2(a, b) == IF a <= b THEN a ELSE b

Max2(a, b) == IF a >= b THEN a ELSE b

MinOf(S) == CHOOSE i \in S : \A j \in S : i <= j

MaxOf(S) == CHOOSE i \in S : \A j \in S : i >= j

Reverse(s) == [i \in 1..Len(s) |-> s[Len(s) + 1 - i]]

\* r + [''] * (len(headers) - len(r)), at index i
padded(r, i) == IF i <= Len(r) THEN r[i] ELSE <<>>

\* the value a dict comprehension leaves under headers[i]: that of the last
\* column with the same header
last_value(headers, r, i) ==
  padded(r, MaxOf({j \in 1..Len(headers) : headers[j] = headers[i]}))

\* the columns whose header occurs for the first time
first_columns(headers) ==
  SelectSeq([i \in 1..Len(headers) |-> i],
            LAMBDA i : \A j \in 1..(i - 1) : headers[j] # headers[i])

dict_items(headers, r, first) ==
  [i \in 1..Len(first) |->
     [key |-> headers[first[i]], value |-> last_value(headers, r, first[i])]]

\* {headers[i]: padded[i] for i in range(len(headers))}: a header that occurs
\* twice keeps its first position and its last value
row_dict(headers, r) == dict_items(headers, r, first_columns(headers))

\* d.get(k, default)
dict_get(d, k, default) ==
  IF \E i \in 1..Len(d) : d[i].key = k
    THEN d[CHOOSE i \in 1..Len(d) : d[i].key = k].value
    ELSE default

\* list(reversed(dicts))[:limit]
newest_first(dicts, limit) == SubSeq(Reverse(dicts), 1, Min2(limit, Len(dicts)))

\* get_recent_orders(limit): the data rows as dicts, newest first
get_recent_orders(all_values, limit) ==
  IF Len(all_values) <= 1 THEN <<>>
  ELSE newest_first([i \in 1..(Len(all_values) - 1) |->
                       row_dict(all_values[1], all_values[i + 1])], limit)

\* _get_dispatch_rows(): the rows below the header, [] when the worksheet is
\* missing
_get_dispatch_rows(has_ws, values) ==
  IF has_ws /\ values # <<>> THEN Tail(values) ELSE <<>>

\* the keys of the order that contain 'balance'
balance_keys(order) ==
  {i \in 1..Len(order) : Contains(Lower(Strip(order[i].key)), sBalance)}

\* the bal_raw of _extract_quantity
bal_raw(order, hits) ==
  IF hits # {} THEN order[MinOf(hits)].value
  ELSE dict_get(order, sQuantityLc, dict_get(order, sQuantity, sZero))

\* _extract_quantity(order)
_extract_quantity(order) == _parse_int(bal_raw(order, balance_keys(order)))

\* a key, or None (found = FALSE)
first_key(keys, hits) ==
  IF hits = {} THEN [found |-> FALSE, key |-> <<>>]
  ELSE [found |-> TRUE, key |-> keys[MinOf(hits)].key]

\* _find_balance_key(orders)
_find_balance_key(orders) ==
  IF orders = <<>> THEN [found |-> FALSE, key |-> <<>>]
  ELSE first_key(orders[1],
                 {i \in 1..Len(orders[1]) :
                    /\ orders[1][i].key # <<>>
                    /\ Lower(Strip(orders[1][i].key)) = sBalanceOrder})

\* _extract_balance_quantity(order, balance_key)
_extract_balance_quantity(order, balance_key) ==
  IF balance_key.found /\ balance_key.key # <<>>
    THEN _parse_int(dict_get(order, balance_key.key, sZero))
    ELSE _extract_quantity(order)

\* the first key whose trimmed lower-case text contains a or b
find_key(keys, a, b) ==
  first_key(keys, {i \in 1..Len(keys) :
                     \/ Contains(Lower(Strip(keys[i].key)), a)
                     \/ Contains(Lower(Strip(keys[i].key)), b)})

\* _find_product_company_keys(orders)
_find_product_company_keys(orders) ==
  IF orders = <<>>
    THEN [product_key |-> [found |-> FALSE, key |-> <<>>],
          company_key |-> [found |-> FALSE, key |-> <<>>]]
  ELSE [product_key |-> find_key(orders[1], sBlade, sProductLc),
        company_key |-> find_key(orders[1], sParty, sCompanyLc)]

strip_lower_each(parts) == [i \in 1..Len(parts) |-> Lower(Strip(parts[i]))]

\* _normalize_filter(filter_str) for a str argument
_normalize_filter(filter_str) ==
  IF filter_str = <<>> THEN <<>>
  ELSE strip_lower_each(SelectSeq(Split(filter_str, ","), LAMBDA x : Strip(x) # <<>>))

\* _matches_filter(value, filters)
_matches_filter(value, filters) ==
  \E i \in 1..Len(filters) : Contains(Lower(value), filters[i])

\* the greatest str of a non-empty set
greatest(S) == CHOOSE x \in S : \A y \in S \ {x} : StrLess(y, x)

\* the least str of a non-empty set
least(S) == CHOOSE x \in S : \A y \in S \ {x} : StrLess(x, y)

\* sorted(S) for a set of str
RECURSIVE sorted(_)
sorted(S) == IF S = {} THEN <<>> ELSE <<least(S)>> \o sorted(S \ {least(S)})

-----------------------------------------------------------------------------
(* get_orders_by_product *)

\* the list comprehension of get_orders_by_product: the orders whose
\* 'blade type' cell is the product, trimmed and lower-cased
filter_by_product(all_orders, product) ==
  SelectSeq(all_orders,
            LAMBDA o : Lower(Strip(dict_get(o, sBladeType, <<>>))) = Lower(Strip(product)))

\* the position of the company among the keys of company_orders, 0: not in
company_index(company_orders, company) ==
  IF \E i \in 1..Len(company_orders) : company_orders[i].company = company
    THEN CHOOSE i \in 1..Len(company_orders) : company_orders[i].company = company
    ELSE 0

\* company_orders[company].append(entry), the list made first when missing
append_order(company_orders, g, company, entry) ==
  IF g = 0 THEN Append(company_orders, [company |-> company, orders |-> <<entry>>])
  ELSE [company_orders EXCEPT ![g].orders = Append(@, entry)]

\* one turn of the "Aggregate by company and serial" loop
aggregate_order(company_orders, o, company) ==
  append_order(company_orders, company_index(company_orders, company), company,
               [quantity |-> _extract_quantity(o).val,
                serial |-> dict_get(o, sOrderNumber, <<>>),
                dispatched |-> 0])

\* "Aggregate by company and serial": company_orders, a dict of lists, as the
\* sequence of its items [company, orders] in insertion order
RECURSIVE aggregate_by_company(_, _)
aggregate_by_company(filtered, company_orders) ==
  IF filtered = <<>> THEN company_orders
  ELSE aggregate_by_company(Tail(filtered),
         aggregate_order(company_orders, Head(filtered),
                         Strip(dict_get(Head(filtered), sPartyName, <<>>))))

\* a loop that stops at the last order with the serial, not the first
last_match(orders, d_serial) ==
  IF \E k \in 1..Len(orders) : Strip(orders[k].serial) = d_serial
    THEN CHOOSE k \in 1..Len(orders) :
           /\ Strip(orders[k].serial) = d_serial
           /\ \A j \in (k + 1)..Len(orders) : Strip(orders[j].serial) # d_serial
    ELSE 0

\* the first order of the list whose trimmed serial is d_serial, 0: none
first_match(orders, d_serial) ==
  IF \E k \in 1..Len(orders) : Strip(orders[k].serial) = d_serial
    THEN CHOOSE k \in 1..Len(orders) :
           /\ Strip(orders[k].serial) = d_serial
           /\ \A j \in 1..(k - 1) : Strip(orders[j].serial) # d_serial
    ELSE 0

\* order['dispatched'] += d_qty; break
add_dispatched(orders, k, d_qty) ==
  IF k = 0 THEN orders ELSE [orders EXCEPT ![k].dispatched = @ + d_qty]

\* the inner loop of "Apply dispatches"
apply_to_orders(orders, d_serial, d_qty) ==
  add_dispatched(orders, first_match(orders, d_serial), d_qty)

\* if d_company in company_orders: ...
apply_to_company(company_orders, g, d_serial, d_qty) ==
  IF g = 0 THEN company_orders
  ELSE [company_orders EXCEPT ![g].orders = apply_to_orders(@, d_serial, d_qty)]

\* a turn of the loop without the test on d_product
apply_dispatch_any_product(company_orders, row, product) ==
  IF Len(row) < 5 THEN company_orders
  ELSE apply_to_company(company_orders,
                        company_index(company_orders, Strip(row[2])),
                        Strip(row[5]), _parse_int(row[4]).val)

\* one turn of the "Apply dispatches" loop of get_orders_by_product
apply_dispatch_by_product(company_orders, row, product) ==
  IF Len(row) < 5 THEN company_orders
  ELSE IF Lower(Strip(row[3])) # Lower(Strip(product)) THEN company_orders
  ELSE apply_to_company(company_orders,
                        company_index(company_orders, Strip(row[2])),
                        Strip(row[5]), _parse_int(row[4]).val)

RECURSIVE apply_dispatches_by_product(_, _, _)
apply_dispatches_by_product(company_orders, dispatch_rows, product) ==
  IF dispatch_rows = <<>> THEN company_orders
  ELSE apply_dispatches_by_product(
         apply_dispatch_by_product(company_orders, Head(dispatch_rows), product),
         Tail(dispatch_rows), product)

\* max(ordered - dispatched, 0)
remaining_of(ordered, dispatched) == Max2(ordered - dispatched, 0)

\* a build that keeps every order
shown_all(orders) == orders

\* the orders the "Build result" loops keep: remaining > 0
shown_orders(orders) ==
  SelectSeq(orders, LAMBDA o : remaining_of(o.quantity, o.dispatched) > 0)

\* "Build result" for the orders of one company
product_entries(company, shown) ==
  [i \in 1..Len(shown) |->
     [company |-> company,
      ordered |-> shown[i].quantity,
      dispatched |-> shown[i].dispatched,
      remaining |-> remaining_of(shown[i].quantity, shown[i].dispatched),
      serial |-> shown[i].serial]]

RECURSIVE build_product_result(_)
build_product_result(company_orders) ==
  IF company_orders = <<>> THEN <<>>
  ELSE product_entries(Head(company_orders).company,
                       shown_orders(Head(company_orders).orders))
         \o build_product_result(Tail(company_orders))

\* company_orders after the dispatches are applied
product_aggregation(filtered, dispatch_rows, product) ==
  apply_dispatches_by_product(aggregate_by_company(filtered, <<>>),
                              dispatch_rows, product)

\* an exception inside get_orders_by_product: _parse_int is the one call of
\* the body that can raise on rows of str
product_view_raises(filtered, dispatch_rows, product) ==
  \/ \E i \in 1..Len(filtered) : _extract_quantity(filtered[i]).raised
  \/ \E i \in 1..Len(dispatch_rows) :
        /\ Len(dispatch_rows[i]) >= 5
        /\ Lower(Strip(dispatch_rows[i][3])) = Lower(Strip(product))
        /\ _parse_int(dispatch_rows[i][4]).raised

\* the body of get_orders_by_product after the orders are filtered
product_view(filtered, dispatch_rows, product) ==
  IF product_view_raises(filtered, dispatch_rows, product) THEN <<>>
  ELSE build_product_result(product_aggregation(filtered, dispatch_rows, product))

\* get_orders_by_product(product)
get_orders_by_product(all_values, dispatch_rows, product) ==
  product_view(filter_by_product(get_recent_orders(all_values, RecentLimit), product),
               dispatch_rows, product)

-----------------------------------------------------------------------------
(* get_orders_by_party *)

\* the list comprehension of get_orders_by_party
filter_by_key(all_orders, company_key, company) ==
  SelectSeq(all_orders,
            LAMBDA o : /\ company_key.found /\ company_key.key # <<>>
                       /\ Lower(Strip(dict_get(o, company_key.key, <<>>)))
                            = Lower(Strip(company)))

filter_by_party(all_orders, company) ==
  filter_by_key(all_orders, _find_product_company_keys(all_orders).company_key, company)

\* o.get(product_key, '').strip() if product_key else ''
product_of(o, product_key) ==
  IF product_key.found /\ product_key.key # <<>>
    THEN Strip(dict_get(o, product_key.key, <<>>))
    ELSE <<>>

\* the orders list of get_orders_by_party before the dispatches
party_orders_list(filtered, product_key) ==
  [i \in 1..Len(filtered) |->
     [product |-> product_of(filtered[i], product_key),
      ordered |-> _extract_quantity(filtered[i]).val,
      dispatched |-> 0,
      serial |-> dict_get(filtered[i], sOrderNumber, <<>>)]]

\* one turn of the "Apply dispatches" loop of get_orders_by_party
apply_dispatch_by_party(orders, row, company) ==
  IF Len(row) < 5 THEN orders
  ELSE IF Lower(Strip(Strip(row[2]))) # Lower(Strip(company)) THEN orders
  ELSE apply_to_orders(orders, Strip(row[5]), _parse_int(row[4]).val)

RECURSIVE apply_dispatches_by_party(_, _, _)
apply_dispatches_by_party(orders, dispatch_rows, company) ==
  IF dispatch_rows = <<>> THEN orders
  ELSE apply_dispatches_by_party(
         apply_dispatch_by_party(orders, Head(dispatch_rows), company),
         Tail(dispatch_rows), company)

\* "Filter to remaining > 0"
party_entries(shown) ==
  [i \in 1..Len(shown) |->
     [product |-> shown[i].product,
      ordered |-> shown[i].ordered,
      dispatched |-> shown[i].dispatched,
      remaining |-> remaining_of(shown[i].ordered, shown[i].dispatched),
      serial |-> shown[i].serial]]

build_party_result(orders) ==
  party_entries(SelectSeq(orders, LAMBDA o : remaining_of(o.ordered, o.dispatched) > 0))

\* the orders list after the dispatches are applied
party_aggregation(all_orders, dispatch_rows, company) ==
  apply_dispatches_by_party(
    party_orders_list(filter_by_party(all_orders, company),
                      _find_product_company_keys(all_orders).product_key),
    dispatch_rows, company)

\* an exception inside get_orders_by_party
party_view_raises(filtered, dispatch_rows, company) ==
  \/ \E i \in 1..Len(filtered) : _extract_quantity(filtered[i]).raised
  \/ \E i \in 1..Len(dispatch_rows) :
        /\ Len(dispatch_rows[i]) >= 5
        /\ Lower(Strip(dispatch_rows[i][2])) = Lower(Strip(company))
        /\ _parse_int(dispatch_rows[i][4]).raised

\* the body of get_orders_by_party after get_recent_orders
party_view(all_orders, dispatch_rows, company) ==
  IF party_view_raises(filter_by_party(all_orders, company), dispatch_rows, company)
    THEN <<>>
    ELSE build_party_result(party_aggregation(all_orders, dispatch_rows, company))

\* get_orders_by_party(company)
get_orders_by_party(all_values, dispatch_rows, company) ==
  party_view(get_recent_orders(all_values, RecentLimit), dispatch_rows, company)

-----------------------------------------------------------------------------
(* get_pivot_data *)

\* d.get(k, {}) for a dict of dicts: a function from the outer keys to
\* functions from the inner keys to int
inner_dict(d, k) == IF k \in DOMAIN d THEN d[k] ELSE <<>>

\* d.get(k, 0)
inner_get(inner, k) == IF k \in DOMAIN inner THEN inner[k] ELSE 0

\* inner[k2] += qty, the entry made 0 first when missing
inner_add(inner, k2, qty) ==
  [k \in (DOMAIN inner) \cup {k2} |->
     inner_get(inner, k) + (IF k = k2 THEN qty ELSE 0)]

\* d[k1][k2] += qty, the entries made first when missing
dict2_add(d, k1, k2, qty) ==
  [k \in (DOMAIN d) \cup {k1} |->
     IF k = k1 THEN inner_add(inner_dict(d, k1), k2, qty) ELSE d[k]]

\* d.get(k1, {}).get(k2, 0)
dict2_get(d, k1, k2) == inner_get(inner_dict(d, k1), k2)

\* the two "continue" tests on empty cells and the two on the filters
passes_filters(product, company, prod_filters, party_filters) ==
  /\ product # <<>> /\ company # <<>>
  /\ prod_filters = <<>> \/ _matches_filter(product, prod_filters)
  /\ party_filters = <<>> \/ _matches_filter(company, party_filters)

pivot_row_selected(order, prod_filters, party_filters) ==
  passes_filters(Strip(dict_get(order, sBladeType, <<>>)),
                 Strip(dict_get(order, sPartyName, <<>>)),
                 prod_filters, party_filters)

\* the two dicts after an order, whatever its qty
track_any(acc, product, company, qty) ==
  [product_orders |-> dict2_add(acc.product_orders, product, company, qty),
   party_orders |-> dict2_add(acc.party_orders, company, product, qty)]

\* "Track": the two dicts after an order of qty > 0
track(acc, product, company, qty) ==
  IF qty <= 0 THEN acc
  ELSE [product_orders |-> dict2_add(acc.product_orders, product, company, qty),
        party_orders |-> dict2_add(acc.party_orders, company, product, qty)]

\* one turn of the "Aggregate" loop of get_pivot_data
pivot_order(acc, order, prod_filters, party_filters, balance_key) ==
  IF ~pivot_row_selected(order, prod_filters, party_filters) THEN acc
  ELSE track(acc, Strip(dict_get(order, sBladeType, <<>>)),
             Strip(dict_get(order, sPartyName, <<>>)),
             _extract_balance_quantity(order, balance_key).val)

\* the "Aggregate" loop, first row to last: loop holds the rows still to
\* take and the two dicts so far. The rows are taken half by half, the
\* first half before the second, so that a long worksheet does not nest one
\* application per row.
RECURSIVE pivot_aggregate(_, _, _, _)
pivot_aggregate(loop, prod_filters, party_filters, balance_key) ==
  IF loop.all_orders = <<>> THEN loop.acc
  ELSE IF Len(loop.all_orders) = 1
    THEN pivot_order(loop.acc, loop.all_orders[1], prod_filters, party_filters, balance_key)
  ELSE pivot_aggregate(
         [all_orders |-> SubSeq(loop.all_orders, Len(loop.all_orders) \div 2 + 1,
                                Len(loop.all_orders)),
          acc |-> pivot_aggregate(
                    [all_orders |-> SubSeq(loop.all_orders, 1, Len(loop.all_orders) \div 2),
                     acc |-> loop.acc],
                    prod_filters, party_filters, balance_key)],
         prod_filters, party_filters, balance_key)

\* the matrix: rows by party, columns by product
pivot_matrix(party_orders, products, parties) ==
  [i \in 1..Len(parties) |->
     [j \in 1..Len(products) |-> dict2_get(party_orders, parties[i], products[j])]]

\* "Build pivot"
build_pivot(acc) ==
  [pivot |-> pivot_matrix(acc.party_orders, sorted(DOMAIN acc.product_orders),
                          sorted(DOMAIN acc.party_orders)),
   products |-> sorted(DOMAIN acc.product_orders),
   parties |-> sorted(DOMAIN acc.party_orders)]

\* an exception inside get_pivot_data
pivot_raises(all_orders, prod_filters, party_filters, balance_key) ==
  \E i \in 1..Len(all_orders) :
     /\ pivot_row_selected(all_orders[i], prod_filters, party_filters)
     /\ _extract_balance_quantity(all_orders[i], balance_key).raised

\* the body of get_pivot_data after the filters are normalized
pivot_view(all_orders, prod_filters, party_filters, balance_key) ==
  IF pivot_raises(all_orders, prod_filters, party_filters, balance_key)
    THEN [pivot |-> <<>>, products |-> <<>>, parties |-> <<>>]
    ELSE build_pivot(pivot_aggregate(
           [all_orders |-> all_orders,
            acc |-> [product_orders |-> <<>>, party_orders |-> <<>>]],
           prod_filters, party_filters, balance_key))

pivot_of_orders(all_orders, product_filter, party_filter) ==
  pivot_view(all_orders, _normalize_filter(product_filter),
             _normalize_filter(party_filter), _find_balance_key(all_orders))

\* get_pivot_data(product_filter, party_filter)
get_pivot_data(all_values, product_filter, party_filter) ==
  pivot_of_orders(get_recent_orders(all_values, RecentLimit), product_filter, party_filter)

-----------------------------------------------------------------------------
(* add_order and add_dispatch *)

\* the first-column cells of the data rows that int() parses
existing_numbers(all_vals) ==
  {PyInt(Strip(all_vals[i][1])).val :
     i \in {r \in 2..Len(all_vals) :
              Len(all_vals[r]) >= 1 /\ PyInt(Strip(all_vals[r][1])).ok}}

\* str(max(existing)) if existing else '1'
max_number(existing) ==
  IF existing = {} THEN sOne ELSE IntToStr(MaxOf(existing))

\* str(max(existing) + 1) if existing else '1'
next_number(existing) ==
  IF existing = {} THEN sOne ELSE IntToStr(MaxOf(existing) + 1)

\* _generate_next_order_number() on the values read from the worksheet
_generate_next_order_number(all_vals) == next_number(existing_numbers(all_vals))

\* the header columns whose name contains 'blade' or 'product'
product_columns(headers) ==
  {i \in 1..Len(headers) :
     /\ headers[i] # <<>>
     /\ \/ Contains(Lower(Strip(headers[i])), sBlade)
        \/ Contains(Lower(Strip(headers[i])), sProductLc)}

\* the worksheet rows, from row 2 on, whose cell in column col is blank
empty_rows(all_vals, col) ==
  {r \in 2..Len(all_vals) : Strip(padded(all_vals[r], col)) = <<>>}

first_empty_row(all_vals, pcols) ==
  IF pcols = {} THEN 0
  ELSE IF empty_rows(all_vals, MinOf(pcols)) = {} THEN 0
  ELSE MinOf(empty_rows(all_vals, MinOf(pcols)))

\* _find_empty_product_row() on the values read: the 1-based worksheet row of
\* the first data row whose product cell is blank, 0 for None
_find_empty_product_row(all_vals) ==
  IF all_vals = <<>> THEN 0 ELSE first_empty_row(all_vals, product_columns(all_vals[1]))

\* the row add_order builds: [order_number, date_str, company, product,
\* brand or '', int(quantity), float(price)] as the worksheet shows it
data_row(order_number, date_str, company, product, brand, quantity, price) ==
  <<order_number, date_str, company, product, brand, IntToStr(quantity), price>>

\* an append that numbers the row from the worksheet as it is when written
append_numbered(all_vals, row) ==
  Append(all_vals, [row EXCEPT ![1] = _generate_next_order_number(all_vals)])

\* sheet.append_row(row): the row goes below the last row of the worksheet
append_row(all_vals, row) == Append(all_vals, row)

\* the row after B..G are overwritten: column A and the columns from H on
\* keep their values
overwrite_B_G(old, row) ==
  [c \in 1..Max2(Len(old), 7) |-> IF c \in 2..7 THEN row[c] ELSE padded(old, c)]

\* values_update of B{target_row}:G{target_row} with data_row[1:]
values_update_B_G(all_vals, target_row, row) ==
  [all_vals EXCEPT ![target_row] = overwrite_B_G(@, row)]

\* the write of add_order: into the row found, or appended
write_order(all_vals, target_row, row) ==
  IF target_row # 0 THEN values_update_B_G(all_vals, target_row, row)
  ELSE append_row(all_vals, row)

\* order_number, generated when it is None ([given |-> FALSE])
number_of(all_vals, order_number) ==
  IF order_number.given THEN order_number.value
  ELSE _generate_next_order_number(all_vals)

\* add_order(...) by one caller at a time: the worksheet values after the call.
\* With the seven-column headers of this model _copy_formulas sends no request
\* (data_cols < header_len is false)
add_order(all_vals, company, product, quantity, price, brand, order_number, date_str) ==
  write_order(all_vals, _find_empty_product_row(all_vals),
              data_row(number_of(all_vals, order_number), date_str,
                       company, product, brand, quantity, price))

-----------------------------------------------------------------------------
(* State *)

VARIABLES
  sheet,            \* the orders worksheet: get_all_values(), header row first
  has_dispatch_ws,  \* the dispatch worksheet exists
  dispatch_ws,      \* the dispatch worksheet: get_all_values(), header row first
  call,             \* the last call of a view or helper, with its arguments
  result,           \* what that call returned
  pc,               \* per concurrent caller of add_order: where it stands
  args,             \* per concurrent caller: the arguments of its add_order
  order_number,     \* per concurrent caller: the local order_number
  target_row        \* per concurrent caller: the local target_row

vars == <<sheet, has_dispatch_ws, dispatch_ws, call, result,
          pc, args, order_number, target_row>>

writer_vars == <<pc, args, order_number, target_row>>

ledger_vars == <<sheet, has_dispatch_ws, dispatch_ws>>

Callers == {1, 2}

\* the header _ensure_worksheets writes when it creates the orders worksheet
ServiceHeader == <<sOrderNumber, sDate, sCompany, sProduct, sBrand, sQuantity, sPrice>>

\* the header of a worksheet that has the columns the views read by name
LegacyHeader == <<sOrderNumber, sDate, sPartyName, sBladeType, sBrand, sQuantity, sPrice>>

\* the header add_dispatch writes when it creates the dispatch worksheet
DispatchHeader == <<sDate, sCompany, sProduct, sQuantity, sOrderNumber>>

\* datetime.date.today().isoformat()
date_str == <<"2","0","2","6","-","1","1","-","0","1">>

\* str(float(price)) of the one price the callers pass
price_str == <<"1",".","5">>

NoCall == [op |-> "none"]

None == [given |-> FALSE, value |-> <<>>]

Given(n) == [given |-> TRUE, value |-> n]

NoArgs == [company |-> <<>>, product |-> <<>>, quantity |-> 0]

IdleWriters ==
  /\ pc = [w \in Callers |-> "idle"]
  /\ args = [w \in Callers |-> NoArgs]
  /\ order_number = [w \in Callers |-> <<>>]
  /\ target_row = [w \in Callers |-> 0]

NoQuery ==
  /\ call = NoCall
  /\ result = <<>>

NoDispatch ==
  /\ has_dispatch_ws = FALSE
  /\ dispatch_ws = <<>>

-----------------------------------------------------------------------------
(* Handlers *)

\* add_order(company, product, quantity, price, brand, order_number), alone
AddOrder(company, product, quantity, price, brand, number) ==
  /\ sheet' = add_order(sheet, company, product, quantity, price, brand, number, date_str)
  /\ call' = NoCall
  /\ result' = <<>>
  /\ UNCHANGED <<has_dispatch_ws, dispatch_ws, writer_vars>>

\* add_order(...) as AddOrder, the call kept with the worksheet it found and
\* the order_number it logs
AddOrderCall(company, product, quantity, price, brand, number) ==
  /\ sheet' = add_order(sheet, company, product, quantity, price, brand, number, date_str)
  /\ call' = [op |-> "add_order", company |-> company, product |-> product,
              quantity |-> quantity, order_number |-> number_of(sheet, number),
              before |-> sheet]
  /\ result' = <<>>
  /\ UNCHANGED <<has_dispatch_ws, dispatch_ws, writer_vars>>

\* the row add_dispatch appends
dispatch_row(company, product, quantity, number) ==
  <<date_str, company, product, IntToStr(quantity), number>>

\* add_dispatch(company, product, quantity, order_number)
AddDispatch(company, product, quantity, number) ==
  /\ has_dispatch_ws' = TRUE
  /\ dispatch_ws' =
       Append(IF has_dispatch_ws THEN dispatch_ws ELSE <<DispatchHeader>>,
              dispatch_row(company, product, quantity, number))
  /\ call' = NoCall
  /\ result' = <<>>
  /\ UNCHANGED <<sheet, writer_vars>>

\* get_orders_by_product(product)
GetOrdersByProduct(product) ==
  /\ call' = [op |-> "get_orders_by_product", arg |-> product]
  /\ result' = get_orders_by_product(sheet,
                 _get_dispatch_rows(has_dispatch_ws, dispatch_ws), product)
  /\ UNCHANGED <<ledger_vars, writer_vars>>

\* get_orders_by_party(company)
GetOrdersByParty(company) ==
  /\ call' = [op |-> "get_orders_by_party", arg |-> company]
  /\ result' = get_orders_by_party(sheet,
                 _get_dispatch_rows(has_dispatch_ws, dispatch_ws), company)
  /\ UNCHANGED <<ledger_vars, writer_vars>>

\* get_pivot_data(product_filter, party_filter)
GetPivotData(product_filter, party_filter) ==
  /\ call' = [op |-> "get_pivot_data",
              product_filter |-> product_filter, party_filter |-> party_filter]
  /\ result' = get_pivot_data(sheet, product_filter, party_filter)
  /\ UNCHANGED <<ledger_vars, writer_vars>>

\* _parse_int(value)
ParseInt(value) ==
  /\ call' = [op |-> "_parse_int", arg |-> value]
  /\ result' = _parse_int(value)
  /\ UNCHANGED <<ledger_vars, writer_vars>>

\* _generate_next_order_number()
GenerateNextOrderNumber ==
  /\ call' = [op |-> "_generate_next_order_number"]
  /\ result' = _generate_next_order_number(sheet)
  /\ UNCHANGED <<ledger_vars, writer_vars>>

(* The views when a read of a worksheet may raise: ok is FALSE when the      *)
(* request raises, and the except clause of the reader returns [].          *)

\* a reader that returns the rows although the request raised
read_recent_orders_uncaught(ok, all_values, limit) ==
  get_recent_orders(all_values, limit)

\* get_recent_orders(limit) with its except clause
read_recent_orders(ok, all_values, limit) ==
  IF ok THEN get_recent_orders(all_values, limit) ELSE <<>>

\* _get_dispatch_rows() with its except clause
read_dispatch_rows(ok, has_ws, values) ==
  IF ok THEN _get_dispatch_rows(has_ws, values) ELSE <<>>

\* get_orders_by_product(product), the reads succeeding or not
ReadOrdersByProduct(product, orders_ok, dispatch_ok) ==
  /\ call' = [op |-> "get_orders_by_product", arg |-> product,
              orders_ok |-> orders_ok, dispatch_ok |-> dispatch_ok]
  /\ result' = product_view(
                 filter_by_product(read_recent_orders(orders_ok, sheet, RecentLimit),
                                   product),
                 read_dispatch_rows(dispatch_ok, has_dispatch_ws, dispatch_ws),
                 product)
  /\ UNCHANGED <<ledger_vars, writer_vars>>

\* get_orders_by_party(company), the reads succeeding or not
ReadOrdersByParty(company, orders_ok, dispatch_ok) ==
  /\ call' = [op |-> "get_orders_by_party", arg |-> company,
              orders_ok |-> orders_ok, dispatch_ok |-> dispatch_ok]
  /\ result' = party_view(read_recent_orders(orders_ok, sheet, RecentLimit),
                          read_dispatch_rows(dispatch_ok, has_dispatch_ws, dispatch_ws),
                          company)
  /\ UNCHANGED <<ledger_vars, writer_vars>>

\* get_pivot_data(), the read succeeding or not; it reads no dispatch row
ReadPivotData(orders_ok) ==
  /\ call' = [op |-> "get_pivot_data", product_filter |-> <<>>, party_filter |-> <<>>,
              orders_ok |-> orders_ok, dispatch_ok |-> TRUE]
  /\ result' = pivot_of_orders(read_recent_orders(orders_ok, sheet, RecentLimit),
                               <<>>, <<>>)
  /\ UNCHANGED <<ledger_vars, writer_vars>>

(* add_order by two concurrent callers: every request to the spreadsheet is *)
(* a step of its own, and the requests of the two callers interleave.       *)

\* caller w enters add_order(company, product, quantity, price) with
\* order_number None
Call(w, company, product, quantity) ==
  /\ pc[w] = "idle"
  /\ pc' = [pc EXCEPT ![w] = "called"]
  /\ args' = [args EXCEPT ![w] =
                [company |-> company, product |-> product, quantity |-> quantity]]
  /\ UNCHANGED <<ledger_vars, call, result, order_number, target_row>>

\* order_number = self._generate_next_order_number(): one read of the worksheet
Generate(w) ==
  /\ pc[w] = "called"
  /\ order_number' = [order_number EXCEPT ![w] = _generate_next_order_number(sheet)]
  /\ pc' = [pc EXCEPT ![w] = "generated"]
  /\ UNCHANGED <<ledger_vars, call, result, args, target_row>>

\* target_row = self._find_empty_product_row(): a second read
FindRow(w) ==
  /\ pc[w] = "generated"
  /\ target_row' = [target_row EXCEPT ![w] = _find_empty_product_row(sheet)]
  /\ pc' = [pc EXCEPT ![w] = "found"]
  /\ UNCHANGED <<ledger_vars, call, result, args, order_number>>

\* the write: values_update of the row found, or append_row
Write(w) ==
  /\ pc[w] = "found"
  /\ sheet' = write_order(sheet, target_row[w],
                 data_row(order_number[w], date_str, args[w].company,
                          args[w].product, <<>>, args[w].quantity, price_str))
  /\ pc' = [pc EXCEPT ![w] = "done"]
  /\ UNCHANGED <<has_dispatch_ws, dispatch_ws, call, result, args,
                 order_number, target_row>>

-----------------------------------------------------------------------------
(* Spec: the ledger and its two reconciliation views, on a worksheet whose  *)
(* header has the columns the views read                                    *)

Companies == {<<"A">>, <<"B"," ">>}

Products == {<<"X">>, <<" ","y">>}

OrderQuantities == {10}

DispatchQuantities == {6}

\* order numbers a caller passes: one that collides with a generated number
GivenNumbers == {<<" ","1">>}

DispatchNumbers == {<<"1"," ">>}

ProductQueries == {<<"x">>, <<"Y"," ">>}

PartyQueries == {<<"a"," ">>, <<"B">>}

Init ==
  /\ sheet = <<LegacyHeader>>
  /\ NoDispatch
  /\ NoQuery
  /\ IdleWriters

Next ==
  \/ \E c \in Companies, p \in Products, q \in OrderQuantities,
        n \in {None} \cup {Given(g) : g \in GivenNumbers} :
       Len(sheet) <= MaxOrders /\ AddOrder(c, p, q, price_str, <<>>, n)
  \/ \E c \in Companies, p \in Products, q \in DispatchQuantities, n \in DispatchNumbers :
       Len(dispatch_ws) <= MaxDispatch /\ AddDispatch(c, p, q, n)
  \/ \E p \in ProductQueries : GetOrdersByProduct(p)
  \/ \E c \in PartyQueries : GetOrdersByParty(c)

Spec == Init /\ [][Next]_vars

-----------------------------------------------------------------------------
(* SpecService: the same ledger on the worksheet the service creates *)

ServiceProducts == {<<"X">>, <<"Y">>}

ServiceDispatchQuantities == {4}

ServiceDispatchNumbers == {<<"1">>}

InitService ==
  /\ sheet = <<ServiceHeader>>
  /\ NoDispatch
  /\ NoQuery
  /\ IdleWriters

NextService ==
  \/ \E p \in ServiceProducts :
       Len(sheet) <= MaxOrders /\ AddOrder(<<"A">>, p, 10, price_str, <<>>, None)
  \/ \E p \in ServiceProducts, q \in ServiceDispatchQuantities, n \in ServiceDispatchNumbers :
       Len(dispatch_ws) <= MaxDispatch /\ AddDispatch(<<"A">>, p, q, n)
  \/ GetOrdersByProduct(<<"X">>)
  \/ GetPivotData(<<>>, <<>>)

SpecService == InitService /\ [][NextService]_vars

-----------------------------------------------------------------------------
(* SpecPivot: get_pivot_data and its filters *)

\* a blank product is a row add_order later fills
PivotProducts == {<<"X">>, <<" ","y">>, <<" ">>}

PivotQuantities == {-2, 0, 5}

ProductFilters == {<<>>, <<"x">>, <<" ","Z"," ",",","y">>}

PartyFilters == {<<>>, <<"b">>}

NextPivot ==
  \/ \E c \in Companies, p \in PivotProducts, q \in PivotQuantities :
       Len(sheet) <= MaxPivotOrders /\ AddOrder(c, p, q, price_str, <<>>, None)
  \/ \E pf \in ProductFilters, cf \in PartyFilters : GetPivotData(pf, cf)

SpecPivot == Init /\ [][NextPivot]_vars

-----------------------------------------------------------------------------
(* SpecParse: _parse_int on cell texts *)

ParseAlphabet == {" ", ",", "-", ".", "1", "9", "a", "e", "f", "i", "n"}

\* the texts of at most n characters
RECURSIVE TextsUpTo(_)
TextsUpTo(n) ==
  IF n = 0 THEN {<<>>}
  ELSE TextsUpTo(n - 1)
         \cup {Append(t, c) : t \in {u \in TextsUpTo(n - 1) : Len(u) = n - 1},
                              c \in ParseAlphabet}

\* cell texts worth a case of their own
NotableTexts ==
  {<<"1",",","2","0","0">>, <<"1","e","9","9","9">>, <<"1","2",".","7">>,
   <<"a","b","c">>, <<"I","n","f","i","n","i","t","y">>, <<"-","i","n","f">>,
   <<"1",",","2","0","0",".","9">>}

CellTexts == TextsUpTo(MaxLen) \cup NotableTexts

InitParse ==
  /\ sheet = <<LegacyHeader>>
  /\ NoDispatch
  /\ call \in {[op |-> "cell", arg |-> v] : v \in CellTexts}
  /\ result = <<>>
  /\ IdleWriters

NextParse == \E v \in CellTexts : call = [op |-> "cell", arg |-> v] /\ ParseInt(v)

SpecParse == InitParse /\ [][NextParse]_vars

-----------------------------------------------------------------------------
(* SpecGen: _generate_next_order_number on first columns of every kind *)

GenNumbers == {<<"3">>, <<"1">>, <<"5">>, <<"a","b","c">>, <<" ","-","2"," ">>}

NextGen ==
  \/ \E n \in GenNumbers :
       Len(sheet) <= MaxGenRows /\ AddOrder(<<"A">>, <<"X">>, 10, price_str, <<>>, Given(n))
  \/ GenerateNextOrderNumber

SpecGen == Init /\ [][NextGen]_vars

-----------------------------------------------------------------------------
(* SpecRace: two callers in add_order at once *)

\* a row whose product cell is blank: add_order fills it instead of appending
BlankRow == <<sOne, date_str, <<"A">>, <<>>, <<>>, <<>>, <<>>>>

FilledRow == data_row(sOne, date_str, <<"A">>, <<"X">>, <<>>, 10, price_str)

InitRace ==
  /\ sheet \in {<<LegacyHeader>>, <<LegacyHeader, FilledRow>>, <<LegacyHeader, BlankRow>>}
  /\ NoDispatch
  /\ NoQuery
  /\ IdleWriters

NextRace ==
  \/ \E w \in Callers, c \in Companies : Call(w, c, <<"X">>, 10)
  \/ \E w \in Callers : Generate(w)
  \/ \E w \in Callers : FindRow(w)
  \/ \E w \in Callers : Write(w)

SpecRace == InitRace /\ [][NextRace]_vars

-----------------------------------------------------------------------------
(* SpecFail: the views while the reads of the worksheets may raise *)

NextFail ==
  \/ \E c \in Companies :
       Len(sheet) <= MaxOrders /\ AddOrder(c, <<"X">>, 10, price_str, <<>>, None)
  \/ \E c \in Companies :
       Len(dispatch_ws) <= MaxDispatch /\ AddDispatch(c, <<"X">>, 6, sOne)
  \/ \E o, d \in BOOLEAN : ReadOrdersByProduct(<<"x">>, o, d)
  \/ \E c \in PartyQueries, o, d \in BOOLEAN : ReadOrdersByParty(c, o, d)
  \/ \E o \in BOOLEAN : ReadPivotData(o)

SpecFail == Init /\ [][NextFail]_vars

-----------------------------------------------------------------------------
(* SpecAdd: add_order by one writer, with products of every kind *)

\* a product cell may be blank: add_order does not look at it
AddProducts == {<<"X">>, <<" ">>}

AddNumbers == {None, Given(<<"7">>)}

NextAdd ==
  \E c \in Companies, p \in AddProducts, n \in AddNumbers :
     Len(sheet) <= MaxOrders + 1 /\ AddOrderCall(c, p, 10, price_str, <<>>, n)

SpecAdd == Init /\ [][NextAdd]_vars

-----------------------------------------------------------------------------
(* SpecLimit: the views on a worksheet of about RecentLimit data rows *)

\* row counts around the limit the views pass to get_recent_orders
LimitRows == {RecentLimit - 1, RecentLimit, RecentLimit + 1, RecentLimit + 2}

\* the rows below the first: orders of one more company and product
LaterRow(i) == data_row(IntToStr(i), date_str, <<"C">>, <<"Z">>, <<>>, 10, price_str)

\* a worksheet of n orders numbered 1..n, the first of them for company c
\* and product p
LongSheet(n, c, p) ==
  <<LegacyHeader, data_row(sOne, date_str, c, p, <<>>, 10, price_str)>>
    \o [i \in 1..(n - 1) |-> LaterRow(i + 1)]

InitLimit ==
  /\ sheet \in {LongSheet(n, c, p) : n \in LimitRows, c \in Companies, p \in Products}
  /\ NoDispatch
  /\ NoQuery
  /\ IdleWriters

NextLimit ==
  \/ \E p \in ProductQueries : GetOrdersByProduct(p)
  \/ \E c \in PartyQueries : GetOrdersByParty(c)
  \/ \E pf \in {<<>>, <<"x">>, <<"y">>} : GetPivotData(pf, <<>>)

SpecLimit == InitLimit /\ [][NextLimit]_vars

-----------------------------------------------------------------------------
(* SpecQuantity: the quantity of an order row under headers of every kind *)

\* 'QUANTITY'
sQuantityUc == <<"Q","U","A","N","T","I","T","Y">>

\* 'Balance'
sBalanceCap == <<"B","a","l","a","n","c","e">>

\* 'Balance Order'
sBalanceOrderCap == <<"B","a","l","a","n","c","e"," ","O","r","d","e","r">>

\* the names the last two columns of the orders worksheet may have
QuantityHeaders ==
  {sQuantity, sQuantityLc, sQuantityUc, sBalanceCap, sBalanceOrderCap, sPrice}

\* the cells of the last two columns
QuantityCells == {<<"3">>, <<"4">>, <<"5">>}

\* an orders worksheet of one order whose last two columns are named h1, h2
QuantitySheet(h1, h2, q1, q2) ==
  <<<<sOrderNumber, sDate, sPartyName, sBladeType, sBrand, h1, h2>>,
    <<sOne, date_str, <<"A">>, <<"X">>, <<>>, q1, q2>>>>

\* _extract_quantity(order) on the newest order, as the two views call it
ExtractQuantity ==
  /\ Len(sheet) > 1
  /\ call' = [op |-> "_extract_quantity"]
  /\ result' = _extract_quantity(get_recent_orders(sheet, RecentLimit)[1])
  /\ UNCHANGED <<ledger_vars, writer_vars>>

\* _extract_balance_quantity(order, balance_key) on the newest order, as
\* get_pivot_data calls it with balance_key = _find_balance_key(all_orders)
ExtractBalanceQuantity ==
  /\ Len(sheet) > 1
  /\ call' = [op |-> "_extract_balance_quantity"]
  /\ result' = _extract_balance_quantity(
                  get_recent_orders(sheet, RecentLimit)[1],
                  _find_balance_key(get_recent_orders(sheet, RecentLimit)))
  /\ UNCHANGED <<ledger_vars, writer_vars>>

InitQuantity ==
  /\ sheet \in {QuantitySheet(h1, h2, q1, q2) :
                   h1 \in QuantityHeaders, h2 \in QuantityHeaders,
                   q1 \in QuantityCells, q2 \in QuantityCells}
  /\ sheet[1][6] # sheet[1][7]
  /\ sheet[2][6] # sheet[2][7]
  /\ NoDispatch
  /\ NoQuery
  /\ IdleWriters

NextQuantity ==
  \/ ExtractQuantity
  \/ ExtractBalanceQuantity

SpecQuantity == InitQuantity /\ [][NextQuantity]_vars

-----------------------------------------------------------------------------
(* Properties of the two reconciliation views *)

RECURSIVE SumSeq(_)
SumSeq(s) == IF s = <<>> THEN 0 ELSE Head(s) + SumSeq(Tail(s))

Norm(s) == Lower(Strip(s))

DispatchRows == _get_dispatch_rows(has_dispatch_ws, dispatch_ws)

AllOrders == get_recent_orders(sheet, RecentLimit)

ByProduct == call.op = "get_orders_by_product"

ByParty == call.op = "get_orders_by_party"

\* company_orders of the by-product call, after the dispatches
ProductAgg ==
  product_aggregation(filter_by_product(AllOrders, call.arg), DispatchRows, call.arg)

\* the orders list of the by-party call, after the dispatches
PartyAgg == party_aggregation(AllOrders, DispatchRows, call.arg)

\* the quantities of dispatch rows
Quantities(rows) == [i \in 1..Len(rows) |-> _parse_int(rows[i][4]).val]

\* the dispatch rows for a product, a company group and a serial
ProductDispatches(product, company, serial) ==
  SelectSeq(DispatchRows,
            LAMBDA r : /\ Len(r) >= 5
                       /\ Norm(r[3]) = Norm(product)
                       /\ Strip(r[2]) = company
                       /\ Strip(r[5]) = Strip(serial))

\* the dispatch rows for a company and a serial, of whatever product
PartyDispatches(company, serial) ==
  SelectSeq(DispatchRows,
            LAMBDA r : /\ Len(r) >= 5
                       /\ Norm(r[2]) = Norm(company)
                       /\ Strip(r[5]) = Strip(serial))

EntryShown(e) ==
  /\ e.remaining = Max2(e.ordered - e.dispatched, 0)
  /\ e.remaining > 0

\* every order of the group with ordered - dispatched > 0 is an entry
GroupReturned(company, orders) ==
  \A k \in 1..Len(orders) :
     orders[k].quantity - orders[k].dispatched > 0 =>
       \E i \in 1..Len(result) :
          result[i] = [company |-> company,
                       ordered |-> orders[k].quantity,
                       dispatched |-> orders[k].dispatched,
                       remaining |-> orders[k].quantity - orders[k].dispatched,
                       serial |-> orders[k].serial]

Positive(orders) == Len(SelectSeq(orders, LAMBDA o : o.quantity - o.dispatched > 0))

ProductComplete(agg) ==
  /\ \A g \in 1..Len(agg) : GroupReturned(agg[g].company, agg[g].orders)
  /\ Len(result) = SumSeq([g \in 1..Len(agg) |-> Positive(agg[g].orders)])

PartyComplete(orders) ==
  /\ \A k \in 1..Len(orders) :
        orders[k].ordered - orders[k].dispatched > 0 =>
          \E i \in 1..Len(result) :
             result[i] = [product |-> orders[k].product,
                          ordered |-> orders[k].ordered,
                          dispatched |-> orders[k].dispatched,
                          remaining |-> orders[k].ordered - orders[k].dispatched,
                          serial |-> orders[k].serial]
  /\ Len(result) = Len(SelectSeq(orders, LAMBDA o : o.ordered - o.dispatched > 0))

\* C1: every entry of get_orders_by_product and of get_orders_by_party has
\* remaining = max(ordered - dispatched, 0) > 0, and every order that passes
\* the view's filter with ordered - dispatched > 0 is an entry of the result.
C1_RemainingPositive ==
  /\ ByProduct \/ ByParty => \A i \in 1..Len(result) : EntryShown(result[i])
  /\ ByProduct => ProductComplete(ProductAgg)
  /\ ByParty => PartyComplete(PartyAgg)

\* a by-product result with an entry, and an order left out because its
\* dispatches cover it
C1_Witness ==
  /\ ByProduct
  /\ result # <<>>
  /\ \E g \in 1..Len(ProductAgg) : \E k \in 1..Len(ProductAgg[g].orders) :
        ProductAgg[g].orders[k].dispatched >= ProductAgg[g].orders[k].quantity

OfProduct(rows, product) ==
  SelectSeq(rows, LAMBDA r : Len(r) >= 3 /\ Norm(r[3]) = Norm(product))

\* C2: get_orders_by_product(p) returns what it returns when the dispatch
\* rows of every other product are absent.
C2_OtherProductIgnored ==
  ByProduct =>
    result = get_orders_by_product(sheet, OfProduct(DispatchRows, call.arg), call.arg)

\* a dispatch row of another product with the company and the serial of a
\* returned entry
C2_Witness ==
  /\ ByProduct
  /\ \E i \in 1..Len(result) : \E j \in 1..Len(DispatchRows) :
        /\ Norm(DispatchRows[j][3]) # Norm(call.arg)
        /\ Strip(DispatchRows[j][2]) = result[i].company
        /\ Strip(DispatchRows[j][5]) = Strip(result[i].serial)

\* the dispatch rows of a company, a serial and a product
SameProductDispatches(company, serial, product) ==
  SelectSeq(PartyDispatches(company, serial), LAMBDA r : Norm(r[3]) = Norm(product))

\* C3: in get_orders_by_party(c) no entry is dispatched more than the dispatch
\* rows of its own product, company and serial add up to.
C3_OwnProductOnly ==
  ByParty =>
    \A i \in 1..Len(result) :
       result[i].dispatched <=
         SumSeq(Quantities(SameProductDispatches(call.arg, result[i].serial,
                                                 result[i].product)))

FirstWithSerial(orders, k) ==
  \A j \in 1..(k - 1) : Strip(orders[j].serial) # Strip(orders[k].serial)

GroupFirstMatch(company, orders) ==
  \A k \in 1..Len(orders) :
     orders[k].dispatched =
       IF FirstWithSerial(orders, k)
         THEN SumSeq(Quantities(ProductDispatches(call.arg, company, orders[k].serial)))
         ELSE 0

PartyFirstMatch(orders) ==
  \A k \in 1..Len(orders) :
     orders[k].dispatched =
       IF FirstWithSerial(orders, k)
         THEN SumSeq(Quantities(PartyDispatches(call.arg, orders[k].serial)))
         ELSE 0

\* C4 (amended): in both views the first order of its group, newest first,
\* with a given trimmed serial is dispatched the sum of all dispatch rows that
\* pass the view's filter, are of the group and carry that serial; a later
\* order of the group with the same serial is dispatched 0.
C4_FirstOrderTakesAll ==
  /\ ByProduct =>
       /\ \A g \in 1..Len(ProductAgg) :
             GroupFirstMatch(ProductAgg[g].company, ProductAgg[g].orders)
       /\ result = build_product_result(ProductAgg)
  /\ ByParty =>
       /\ PartyFirstMatch(PartyAgg)
       /\ result = build_party_result(PartyAgg)

\* two orders of one group with one serial, and a dispatch for it
C4_Witness ==
  /\ ByProduct
  /\ \E g \in 1..Len(ProductAgg) : \E k \in 1..Len(ProductAgg[g].orders) :
        /\ ~FirstWithSerial(ProductAgg[g].orders, k)
        /\ ProductDispatches(call.arg, ProductAgg[g].company,
                             ProductAgg[g].orders[k].serial) # <<>>
        /\ \E i \in 1..Len(result) : result[i].dispatched > 0

\* C4 as stated: every entry is dispatched the sum of all the dispatch rows
\* of its group and serial.
C4_EveryOrderSummed ==
  /\ ByProduct =>
       \A i \in 1..Len(result) :
          result[i].dispatched =
            SumSeq(Quantities(ProductDispatches(call.arg, result[i].company,
                                                result[i].serial)))
  /\ ByParty =>
       \A i \in 1..Len(result) :
          result[i].dispatched =
            SumSeq(Quantities(PartyDispatches(call.arg, result[i].serial)))

-----------------------------------------------------------------------------
(* Properties of the views on the worksheet the service creates *)

ExampleOrders ==
  <<ServiceHeader, data_row(sOne, date_str, <<"A">>, <<"X">>, <<>>, 10, price_str)>>

ExampleDispatches == <<DispatchHeader, dispatch_row(<<"A">>, <<"X">>, 4, sOne)>>

IsPivot == call.op = "get_pivot_data"

\* the worksheet with its product and company columns under the names
\* 'blade type' and 'Party Name'
Renamed == <<LegacyHeader>> \o Tail(sheet)

\* C5: on the header the service writes, get_orders_by_product and
\* get_pivot_data find the Product and Company columns: they return what they
\* return when these columns are named 'blade type' and 'Party Name', and the
\* example of one order of 10 and one dispatch of 4 gives one entry with
\* remaining 6.
C5_ColumnsFound ==
  /\ ByProduct => result = get_orders_by_product(Renamed, DispatchRows, call.arg)
  /\ IsPivot => result = get_pivot_data(Renamed, call.product_filter, call.party_filter)
  /\ (ByProduct /\ sheet = ExampleOrders /\ dispatch_ws = ExampleDispatches) =>
       result = <<[company |-> <<"A">>, ordered |-> 10, dispatched |-> 4,
                   remaining |-> 6, serial |-> sOne]>>

-----------------------------------------------------------------------------
(* Properties of _parse_int *)

IsParse == call.op = "_parse_int"

\* C6: _parse_int never raises; "1,200" gives 1200 and a text float() does
\* not parse gives 0.
C6_Total ==
  IsParse =>
    /\ ~result.raised
    /\ call.arg = <<"1",",","2","0","0">> => result.val = 1200
    /\ PyFloat(RemoveChar(call.arg, ",")).kind = "err" => result.val = 0

-----------------------------------------------------------------------------
(* Properties of _generate_next_order_number *)

IsGenerate == call.op = "_generate_next_order_number"

\* the first-column cells of the data rows
FirstColumn == [i \in 1..(Len(sheet) - 1) |-> sheet[i + 1][1]]

\* the integers the first column holds
ParsedNumbers ==
  {PyInt(FirstColumn[i]).val : i \in {j \in 1..Len(FirstColumn) : PyInt(FirstColumn[j]).ok}}

ExampleColumn == <<<<"3">>, <<"1">>, <<"5">>, <<"a","b","c">>>>

-----------------------------------------------------------------------------
(* Properties of two concurrent add_order calls *)

HasNumber(w) == pc[w] \in {"generated", "found"}

Duplicated(n) ==
  \E i \in 2..Len(sheet) : \E j \in 2..Len(sheet) :
     i # j /\ sheet[i][1] = n /\ sheet[j][1] = n

\* C8: two callers that both generate their number before either writes hold
\* the same number, and once both have appended their row two rows of the
\* worksheet carry it.
C8_SameNumberTwice ==
  /\ HasNumber(1) /\ HasNumber(2) => order_number[1] = order_number[2]
  /\ /\ pc[1] = "done" /\ pc[2] = "done"
     /\ target_row[1] = 0 /\ target_row[2] = 0
     /\ order_number[1] = order_number[2]
     => Duplicated(order_number[1])

\* both calls are over and two rows carry the number both generated
C8_Witness ==
  /\ pc[1] = "done" /\ pc[2] = "done"
  /\ order_number[1] = order_number[2]
  /\ Duplicated(order_number[1])

-----------------------------------------------------------------------------
(* Properties of get_pivot_data *)

StrictlyAscending(s) == \A i \in 1..(Len(s) - 1) : StrLess(s[i], s[i + 1])

\* the column of the header named name
ColumnOf(name) == CHOOSE i \in 1..Len(sheet[1]) : sheet[1][i] = name

RowProduct(r) == Strip(r[ColumnOf(sBladeType)])

RowCompany(r) == Strip(r[ColumnOf(sPartyName)])

RowQuantity(r) == _parse_int(r[ColumnOf(sQuantity)]).val

\* the items of a filter: trimmed, lower-cased, not empty
FilterItems(f) ==
  {Norm(Split(f, ",")[i]) : i \in 1..Len(Split(f, ","))} \ {<<>>}

Passes(value, f) ==
  \/ FilterItems(f) = {}
  \/ \E item \in FilterItems(f) : Contains(Lower(value), item)

\* the order row adds to the pivot
Contributes(r) ==
  /\ RowProduct(r) # <<>>
  /\ RowCompany(r) # <<>>
  /\ RowQuantity(r) > 0
  /\ Passes(RowProduct(r), call.product_filter)
  /\ Passes(RowCompany(r), call.party_filter)

Contributing == SelectSeq(Tail(sheet), Contributes)

CellRows(company, product) ==
  SelectSeq(Contributing, LAMBDA r : RowCompany(r) = company /\ RowProduct(r) = product)

CellSum(rows) == SumSeq([i \in 1..Len(rows) |-> RowQuantity(rows[i])])

\* C9: products and parties are strictly ascending, pivot has one row per
\* party and one cell per product in each row, every cell is a natural
\* number, and a cell is 0 exactly when no order row adds to it.
C9_PivotShape ==
  IsPivot =>
    /\ StrictlyAscending(result.products)
    /\ StrictlyAscending(result.parties)
    /\ Len(result.pivot) = Len(result.parties)
    /\ \A i \in 1..Len(result.pivot) :
          /\ Len(result.pivot[i]) = Len(result.products)
          /\ \A j \in 1..Len(result.pivot[i]) :
                /\ result.pivot[i][j] \in Nat
                /\ result.pivot[i][j] = 0
                     <=> CellRows(result.parties[i], result.products[j]) = <<>>

\* two parties, two products, a cell with a quantity and a cell with 0
C9_Witness ==
  /\ IsPivot
  /\ Len(result.parties) >= 2
  /\ Len(result.products) >= 2
  /\ \E i \in 1..Len(result.pivot) : \E j, k \in 1..Len(result.pivot[i]) :
        result.pivot[i][j] > 0 /\ result.pivot[i][k] = 0

Range(s) == {s[i] : i \in 1..Len(s)}

\* C10: the cell of a party and a product is the sum of the quantities of the
\* order rows of that company and product with both cells not blank, a
\* quantity > 0 and both filters passed; the axes hold the products and the
\* parties of these rows only, and when there is no such row the result is
\* empty.
C10_PivotCells ==
  IsPivot =>
    /\ Range(result.products) = {RowProduct(r) : r \in Range(Contributing)}
    /\ Range(result.parties) = {RowCompany(r) : r \in Range(Contributing)}
    /\ \A i \in 1..Len(result.pivot) : \A j \in 1..Len(result.pivot[i]) :
          result.pivot[i][j] =
            CellSum(CellRows(result.parties[i], result.products[j]))
    /\ Contributing = <<>> =>
         result = [pivot |-> <<>>, products |-> <<>>, parties |-> <<>>]

\* a filter that an order row passes, and an order row with a quantity <= 0
\* that passes it too
C10_Witness ==
  /\ IsPivot
  /\ call.product_filter # <<>>
  /\ Contributing # <<>>
  /\ \E r \in Range(Tail(sheet)) :
        /\ RowQuantity(r) <= 0
        /\ RowProduct(r) # <<>>
        /\ Passes(RowProduct(r), call.product_filter)
        /\ Passes(RowCompany(r), call.party_filter)

-----------------------------------------------------------------------------
(* Properties of the views when a read raises *)

EmptyPivot == [pivot |-> <<>>, products |-> <<>>, parties |-> <<>>]

IsView == ByProduct \/ ByParty

\* the dispatch rows could not be read: the request raised, or there is no
\* dispatch worksheet
NoDispatchRead == ~call.dispatch_ok \/ ~has_dispatch_ws

\* the orders the view selects
Selected ==
  IF ByProduct THEN filter_by_product(AllOrders, call.arg)
  ELSE filter_by_party(AllOrders, call.arg)

WithQuantity(orders) == SelectSeq(orders, LAMBDA o : _extract_quantity(o).val > 0)

\* the result has one entry for each order of the list, in whatever order,
\* with nothing dispatched
Undispatched(orders) ==
  /\ Len(result) = Len(orders)
  /\ \A j \in 1..Len(result) :
        /\ result[j].dispatched = 0
        /\ result[j].remaining = result[j].ordered
  /\ \A i \in 1..Len(orders) : \E j \in 1..Len(result) :
        /\ result[j].serial = dict_get(orders[i], sOrderNumber, <<>>)
        /\ result[j].ordered = _extract_quantity(orders[i]).val

\* C11 (amended): when the read of the orders worksheet raises, the two views
\* return [] and get_pivot_data the empty pivot; when the orders are read and
\* the dispatch rows are not (the read raises or the worksheet is missing),
\* the two views return every selected order of a quantity > 0 with
\* dispatched 0.
C11_ReadFailures ==
  /\ IsView /\ ~call.orders_ok => result = <<>>
  /\ IsPivot /\ ~call.orders_ok => result = EmptyPivot
  /\ IsView /\ call.orders_ok /\ NoDispatchRead => Undispatched(WithQuantity(Selected))

\* the dispatch read raises on a worksheet that holds a dispatch for a
\* returned order
C11_Witness ==
  /\ ByProduct
  /\ call.orders_ok /\ ~call.dispatch_ok
  /\ result # <<>>
  /\ \E j \in 2..Len(dispatch_ws) : \E i \in 1..Len(result) :
        /\ Strip(dispatch_ws[j][2]) = result[i].company
        /\ Strip(dispatch_ws[j][5]) = Strip(result[i].serial)

\* C11 as stated: when a read raises or the dispatch worksheet is missing the
\* views return [] and the empty pivot.
C11_EmptyOnFailure ==
  /\ IsView /\ (~call.orders_ok \/ NoDispatchRead) => result = <<>>
  /\ IsPivot /\ ~call.orders_ok => result = EmptyPivot

-----------------------------------------------------------------------------
(* Properties of add_order by one writer *)

IsAddOrder == call.op = "add_order"

\* the row holds the order of the call
HoldsOrder(row, number, company, product, quantity) ==
  /\ row[1] = number
  /\ row[3] = company
  /\ row[4] = product
  /\ row[6] = IntToStr(quantity)

\* C12: after add_order the worksheet has one row more than before, the rows
\* it had are as they were, and the new row carries the order number of the
\* call with its company, product and quantity.
C12_OneNewRow ==
  IsAddOrder =>
    /\ Len(sheet) = Len(call.before) + 1
    /\ SubSeq(sheet, 1, Len(call.before)) = call.before
    /\ HoldsOrder(sheet[Len(sheet)], call.order_number, call.company,
                  call.product, call.quantity)

-----------------------------------------------------------------------------
(* Properties of the orders two concurrent callers leave *)

\* the row holds the order of caller w
HoldsOrderOf(row, w) ==
  /\ row[3] = args[w].company
  /\ row[4] = args[w].product
  /\ row[6] = IntToStr(args[w].quantity)

\* C13: after both concurrent calls are over, the worksheet holds the order
\* of each caller in a row of its own.
C13_BothOrdersStored ==
  pc[1] = "done" /\ pc[2] = "done" =>
    \E i \in 2..Len(sheet) : \E j \in 2..Len(sheet) :
       i # j /\ HoldsOrderOf(sheet[i], 1) /\ HoldsOrderOf(sheet[j], 2)

-----------------------------------------------------------------------------
(* Properties of the views on long worksheets *)

\* the data row is an order of a quantity > 0 that the call selects
RowSelected(r) ==
  /\ _parse_int(r[6]).val > 0
  /\ ByProduct => Norm(r[4]) = Norm(call.arg)
  /\ ByParty => Norm(r[3]) = Norm(call.arg)
  /\ IsPivot => Passes(Strip(r[4]), call.product_filter)

\* the result of the call shows the data row
RowShown(r) ==
  /\ IsView => \E i \in 1..Len(result) : result[i].serial = r[1]
  /\ IsPivot => /\ Strip(r[4]) \in Range(result.products)
                /\ Strip(r[3]) \in Range(result.parties)

\* C14: with no dispatch recorded, every data row of the orders worksheet
\* that a view or the pivot selects is in its result, wherever the row is
\* and however many rows the worksheet has.
C14_EveryRowScanned ==
  IsView \/ IsPivot =>
    \A i \in 2..Len(sheet) : RowSelected(sheet[i]) => RowShown(sheet[i])

-----------------------------------------------------------------------------
(* Properties of the quantity of an order row *)

IsExtract == call.op \in {"_extract_quantity", "_extract_balance_quantity"}

\* the columns whose header contains "balance", in any letter case
BalanceColumns ==
  {i \in 1..Len(sheet[1]) : Contains(Lower(sheet[1][i]), sBalance)}

\* the columns whose header is "quantity", in any letter case
QuantityColumns ==
  {i \in 1..Len(sheet[1]) : Lower(sheet[1][i]) = sQuantityLc}

\* C15: the quantity extracted from an order row, by the views
\* (_extract_quantity) and by the pivot (_extract_balance_quantity) alike,
\* is the cell under the leftmost header containing "balance" in any letter
\* case; with no such header it is the cell under a header equal to
\* "quantity" in any letter case; with neither it is 0.
C15_SameQuantity ==
  IsExtract =>
    IF BalanceColumns # {}
      THEN result.val = _parse_int(sheet[2][MinOf(BalanceColumns)]).val
    ELSE IF QuantityColumns # {}
      THEN \E i \in QuantityColumns : result.val = _parse_int(sheet[2][i]).val
    ELSE result.val = 0

=============================================================================
